---- MODULE Spec2Model ----
(***************************************************************************)
(* The validator step loop (prompting/forward.py), the human agent it      *)
(* drives (prompting/agent.py) and the miner's request handler             *)
(* (neurons/miners/zephyr/miner.py).                                       *)
(*                                                                         *)
(* Text is modelled as a sequence of one-character strings wherever the    *)
(* code edits it (str.strip in create_challenge); rewards, thresholds and  *)
(* probabilities are integers on a small scale.                            *)
(***************************************************************************)
EXTENDS Integers, Sequences, FiniteSets, TLC

VARIABLES
    pc,            \* position of forward / run_step
    config,        \* self.config of the validator
    task,          \* forward's local `task`
    agent,         \* forward's local `agent` (carries agent.task)
    rounds,        \* forward's local `rounds`
    exclude_uids,  \* forward's local `exclude_uids`
    uids,          \* run_step's local `uids`
    query,         \* the batch call handed to self.dendrite
    responses,     \* run_step's local `responses` (their completions)
    rewards,       \* reward_event.reward
    top,           \* top_reward and top_response
    event,         \* the event run_step returns
    draw,          \* the last value of random.random() (-1: not drawn)
    inflight,      \* batch calls handed to the dendrite and not yet returned
    contCalls,     \* calls of HumanAgent.continue_conversation so far
    scoreCalls,    \* calls of self.update_scores so far
    logged,        \* events logged so far
    phases,        \* history: phases of the current run_step, in order
    stepExclude,   \* history: the exclude argument of every run_step call
    stepUids,      \* history: the uids queried by every run_step call
    synapse,       \* the synapse handed to the miner's forward
    returned,      \* what the miner's forward handed back
    minerPc        \* position of the miner's handler

loopVars == <<config, task, agent, rounds, exclude_uids, uids, query, responses,
              rewards, top, event, draw, inflight, contCalls, scoreCalls, logged,
              phases, stepExclude, stepUids>>
minerVars == <<synapse, returned, minerPc>>
vars == <<pc, loopVars, minerVars>>

----------------------------------------------------------------------------
(* Bounds of the model.                                                    *)

\* config.max_turns ranges over 0..MaxTurnsMax
MaxTurnsMax == 1
\* config.sample_size ranges over 1..MaxSampleSize
MaxSampleSize == 2
\* number of uids of the metagraph
NumUids == 5
\* rewards and task.reward_threshold range over 0..RewardMax
RewardMax == 1
\* config.termination_probability is n/ProbDen, random.random() is d/ProbDen
ProbDen == 1
\* longest message list of an incoming synapse
MaxMsgs == 2

Uids == 1..NumUids
Completions == {<<"a">>, <<"b">>}
Range(s) == {s[i] : i \in 1..Len(s)}

RECURSIVE Concat(_)
Concat(ss) == IF ss = <<>> THEN <<>> ELSE Head(ss) \o Concat(Tail(ss))

IsPrefix(s, t) == Len(s) <= Len(t) /\ SubSeq(t, 1, Len(s)) = s

----------------------------------------------------------------------------
(* prompting/agent.py : HumanAgent                                         *)

NoAgent == [exists |-> FALSE]
NoTask == [name |-> "none", reward_threshold |-> 0, complete |-> FALSE]

\* The characters str.strip(' "') removes.
StripChars == {" ", "\""}

RECURSIVE LStrip(_)
LStrip(s) == IF s # <<>> /\ Head(s) \in StripChars THEN LStrip(Tail(s)) ELSE s

RECURSIVE RStrip(_)
RStrip(s) ==
    IF s # <<>> /\ s[Len(s)] \in StripChars THEN RStrip(SubSeq(s, 1, Len(s) - 1)) ELSE s

\* str.strip(' "')
Strip(s) == RStrip(LStrip(s))

\* HuggingFaceLLM.query: the message and the generated answer join the history.
LLM_query(messages, message, answer) ==
    messages \o <<[content |-> message, role |-> "user"],
                  [content |-> answer, role |-> "assistant"]>>

AskMessage == <<"A", "s", "k">>
SystemPrompt == <<"s", "y", "s">>

\* What the LLM may generate as the opening question.
RawChallenges == {<<" ", "\"", "q", " ", "?", "\"", " ">>}

\* HumanAgent.create_challenge: the generated text, stripped of blanks and quotes.
create_challenge(ag, answer) ==
    [ag EXCEPT !.messages = LLM_query(ag.messages, AskMessage, answer),
               !.challenge = Strip(answer),
               !.has_challenge = TRUE]

\* The parameters of HumanAgent.__init__ and those without a default.
CtorParams == {"task", "llm_pipeline", "system_template", "persona", "begin_conversation"}
CtorRequired == {"task", "llm_pipeline"}

\* HumanAgent.__init__ called with the keyword arguments kw; `answer` is what the
\* LLM generates for the opening question. A keyword that is no parameter, or a
\* missing required parameter, is a TypeError before the body runs; a persona
\* that is given is never stored, so formatting the system prompt fails.
HumanAgent_init(kw, answer) ==
    IF ~(DOMAIN kw \subseteq CtorParams) \/ ~(CtorRequired \subseteq DOMAIN kw)
    THEN [raised |-> "TypeError", agent |-> NoAgent]
    ELSE IF "persona" \in DOMAIN kw /\ kw.persona # "None"
    THEN [raised |-> "AttributeError", agent |-> NoAgent]
    ELSE LET begin == IF "begin_conversation" \in DOMAIN kw
                      THEN kw.begin_conversation ELSE TRUE
             base == [exists |-> TRUE,
                      task |-> kw.task,
                      messages |-> <<[content |-> SystemPrompt, role |-> "system"]>>,
                      challenge |-> <<>>,
                      has_challenge |-> FALSE]
         IN [raised |-> "no",
             agent |-> IF begin THEN create_challenge(base, answer) ELSE base]

\* HumanAgent.progress
progress(ag) == IF ag.task.complete THEN 1 ELSE 0

\* HumanAgent.finished
finished(ag) == progress(ag) = 1

\* HumanAgent.continue_conversation: the agent answers the miner's response.
continue_conversation(ag, miner_response, answer) ==
    [ag EXCEPT !.messages = LLM_query(ag.messages, miner_response, answer)]

\* CriterionMet with the comparison made inclusive.
CriterionMet_inclusive(top_reward, threshold) == top_reward >= threshold

\* The reward criterion of update_progress.
CriterionMet(top_reward, threshold) == top_reward > threshold

\* HumanAgent.update_progress; `answer` is what the LLM generates if the
\* conversation is continued. Yields the agent and whether it continued.
update_progress(ag, top_reward, top_response, continue, answer) ==
    IF CriterionMet(top_reward, ag.task.reward_threshold)
    THEN [agent |-> [ag EXCEPT !.task.complete = TRUE,
                               !.messages = Append(ag.messages,
                                    [content |-> top_response, role |-> "user"])],
          continued |-> FALSE]
    ELSE IF continue
    THEN [agent |-> continue_conversation(ag, top_response, answer), continued |-> TRUE]
    ELSE [agent |-> ag, continued |-> FALSE]

----------------------------------------------------------------------------
(* prompting/forward.py : the environment of forward and run_step          *)

TaskNames == {"debugging", "qa", "summarization", "math", "date_qa"}

\* tasks_sampling_distribution of the module's own configuration.
MainDistribution == [n \in TaskNames |-> IF n = "math" THEN 1 ELSE 0]

\* The distributions the model tries: all the weight on one task.
Distributions == {[n \in TaskNames |-> IF n = m THEN 1 ELSE 0] : m \in TaskNames}

\* np.random.choice(tasks, p=task_distribution): a task of positive weight.
Sampleable(cfg) == {n \in TaskNames : cfg.task_distribution[n] > 0}

\* create_task: a fresh, incomplete task with its reward threshold.
create_task(name, threshold) ==
    [name |-> name, reward_threshold |-> threshold, complete |-> FALSE]

Timeouts == {15}

Configs ==
    [max_turns : 0..MaxTurnsMax,
     termination_probability : 0..ProbDen,
     sample_size : 1..MaxSampleSize,
     timeout : Timeouts,
     task_distribution : Distributions]

\* The longest run of the loop makes max_turns + 2 steps; the metagraph is
\* taken to hold enough miners for all of them.
EnoughMiners(cfg) == cfg.sample_size * (cfg.max_turns + 2) <= NumUids

\* The strictly increasing sequence of the elements of a set of uids.
SortedSeq(S) ==
    CHOOSE s \in [1..Cardinality(S) -> S] :
        \A i \in 1..Cardinality(S), j \in 1..Cardinality(S) : i < j => s[i] < s[j]

\* get_random_uids(self, k, exclude): k distinct uids, none of them excluded
\* (the order within a sample is immaterial and is taken increasing).
get_random_uids(k, exclude) ==
    {SortedSeq(S) : S \in {T \in SUBSET (Uids \ Range(exclude)) : Cardinality(T) = k}}

NoQuery == [axons |-> <<>>, roles |-> <<>>, messages |-> <<>>, timeout |-> 0]
NoTop == [reward |-> 0, response |-> <<>>]
NoEvent == [uids |-> <<>>]

\* RelevanceRewardModel.reward: one reward per completion, in their order;
\* score[c] is the similarity of completion c to the reference.
reward(score, completions) == [i \in 1..Len(completions) |-> score[completions[i]]]

\* tensor.max()
MaxOf(rw) == CHOOSE m \in Range(rw) : \A i \in 1..Len(rw) : rw[i] <= m

\* tensor.argmax(): the first index of the maximum
ArgMax(rw) == CHOOSE i \in 1..Len(rw) : rw[i] = MaxOf(rw) /\ \A j \in 1..(i - 1) : rw[j] < rw[i]

\* RunStepOrder with the scores updated before the agent's progress.
RunStepOrder_scores_first ==
    <<"select", "dispatch", "await", "reward", "scores", "progress", "log", "returned">>

\* The positions of run_step, in the order its body visits them.
RunStepOrder == <<"select", "dispatch", "await", "reward", "progress", "scores", "log", "returned">>

\* The position after p in run_step.
After(p) == RunStepOrder[(CHOOSE i \in 1..Len(RunStepOrder) : RunStepOrder[i] = p) + 1]

\* LoopContinues as `while True`.
LoopContinues_always(ag) == TRUE

\* `while not agent.finished`
LoopContinues(ag) == ~finished(ag)

\* StepContinueFlag with continue_conversation=True passed.
StepContinueFlag_set == TRUE

\* run_step calls update_progress(top_reward, top_response): the third
\* parameter keeps its default.
StepContinueFlag == FALSE

\* AfterAwait with the batch call left running (not awaited).
AfterAwait_not_awaited(n) == n

\* `await self.dendrite(...)`: run_step resumes when the batch call is over.
AfterAwait(n) == n - 1

\* ExtendExclude with the list replaced instead of extended.
ExtendExclude_replace(ex, ev) == ev.uids

\* `exclude_uids += event['uids']`
ExtendExclude(ex, ev) == ex \o ev.uids

\* `rounds > self.config.max_turns`
TurnsExceeded(r, cfg) == r > cfg.max_turns

\* `random.random() < self.config.termination_probability`
DrawTerminates(d, cfg) == d < cfg.termination_probability

----------------------------------------------------------------------------
(* prompting/forward.py : forward, up to the construction of the agent     *)

\* The keyword arguments of the call HumanAgent(...) in forward.
ForwardCall(t) == [task |-> t, llm |-> "llm_pipeline", begin_conversation |-> TRUE]

\* task_name = np.random.choice(...); task = create_task(...)
CreateTask ==
    /\ pc = "create_task"
    /\ \E name \in Sampleable(config), threshold \in 0..RewardMax :
           task' = create_task(name, threshold)
    /\ pc' = "create_agent"
    /\ UNCHANGED <<config, agent, rounds, exclude_uids, uids, query, responses, rewards,
                   top, event, draw, inflight, contCalls, scoreCalls, logged, phases,
                   stepExclude, stepUids, minerVars>>

\* agent = HumanAgent(task=task, llm=self.llm_pipeline, begin_conversation=True);
\* rounds = 0; exclude_uids = []
CreateAgent ==
    /\ pc = "create_agent"
    /\ \E answer \in RawChallenges :
           LET r == HumanAgent_init(ForwardCall(task), answer)
           IN IF r.raised = "no"
              THEN agent' = r.agent /\ pc' = "loop_test"
              ELSE agent' = agent /\ pc' = "raised"
    /\ rounds' = 0
    /\ exclude_uids' = <<>>
    /\ UNCHANGED <<config, task, uids, query, responses, rewards, top, event, draw,
                   inflight, contCalls, scoreCalls, logged, phases, stepExclude,
                   stepUids, minerVars>>

----------------------------------------------------------------------------
(* prompting/forward.py : the step loop of forward, and run_step            *)

\* `while not agent.finished` is false: forward returns.
LoopExit ==
    /\ pc = "loop_test"
    /\ ~LoopContinues(agent)
    /\ pc' = "done"
    /\ UNCHANGED <<loopVars, minerVars>>

\* `while not agent.finished` is true: run_step is called with exclude_uids.
CallRunStep ==
    /\ pc = "loop_test"
    /\ LoopContinues(agent)
    /\ pc' = RunStepOrder[1]
    /\ phases' = <<>>
    /\ stepExclude' = Append(stepExclude, exclude_uids)
    /\ UNCHANGED <<config, task, agent, rounds, exclude_uids, uids, query, responses,
                   rewards, top, event, draw, inflight, contCalls, scoreCalls, logged,
                   stepUids, minerVars>>

\* uids = get_random_uids(self, k=k, exclude=exclude)
SelectUids ==
    /\ pc = "select"
    /\ \E u \in get_random_uids(config.sample_size, stepExclude[Len(stepExclude)]) :
           /\ uids' = u
           /\ stepUids' = Append(stepUids, u)
    /\ phases' = Append(phases, "uids")
    /\ pc' = After("select")
    /\ UNCHANGED <<config, task, agent, rounds, exclude_uids, query, responses, rewards,
                   top, event, draw, inflight, contCalls, scoreCalls, logged,
                   stepExclude, minerVars>>

\* synapse = Prompting(roles=["user"], messages=[agent.challenge]);
\* self.dendrite(axons=axons, synapse=synapse, timeout=timeout) is started.
Dispatch ==
    /\ pc = "dispatch"
    /\ IF agent.has_challenge
       THEN /\ query' = [axons |-> uids, roles |-> <<"user">>,
                         messages |-> <<agent.challenge>>, timeout |-> config.timeout]
            /\ inflight' = inflight + 1
            /\ phases' = Append(phases, "query")
            /\ pc' = After("dispatch")
       ELSE /\ pc' = "raised"
            /\ UNCHANGED <<query, inflight, phases>>
    /\ UNCHANGED <<config, task, agent, rounds, exclude_uids, uids, responses, rewards,
                   top, event, draw, contCalls, scoreCalls, logged, stepExclude,
                   stepUids, minerVars>>

\* The awaited batch call returns one response per axon.
Return ==
    /\ pc = "await"
    /\ \E r \in [1..Len(uids) -> Completions] : responses' = r
    /\ inflight' = AfterAwait(inflight)
    /\ phases' = Append(phases, "responses")
    /\ pc' = After("await")
    /\ UNCHANGED <<config, task, agent, rounds, exclude_uids, uids, query, rewards, top,
                   event, draw, contCalls, scoreCalls, logged, stepExclude, stepUids,
                   minerVars>>

\* reward_event = RewardEvent(...); top_reward = reward.max();
\* top_response = completions[reward.argmax()]
Reward ==
    /\ pc = "reward"
    /\ \E score \in [Completions -> 0..RewardMax] :
           LET rw == reward(score, responses)
           IN /\ rewards' = rw
              /\ top' = [reward |-> MaxOf(rw), response |-> responses[ArgMax(rw)]]
    /\ phases' = Append(phases, "reward")
    /\ pc' = After("reward")
    /\ UNCHANGED <<config, task, agent, rounds, exclude_uids, uids, query, responses,
                   event, draw, inflight, contCalls, scoreCalls, logged, stepExclude,
                   stepUids, minerVars>>

\* agent.update_progress(top_reward, top_response); forward's `task` is the
\* object agent.task refers to.
UpdateProgress ==
    /\ pc = "progress"
    /\ \E answer \in (IF StepContinueFlag THEN Completions ELSE {<<>>}) :
           LET r == update_progress(agent, top.reward, top.response, StepContinueFlag, answer)
           IN /\ agent' = r.agent
              /\ task' = r.agent.task
              /\ contCalls' = contCalls + (IF r.continued THEN 1 ELSE 0)
    /\ phases' = Append(phases, "progress")
    /\ pc' = After("progress")
    /\ UNCHANGED <<config, rounds, exclude_uids, uids, query, responses, rewards,
                   top, event, draw, inflight, scoreCalls, logged, stepExclude, stepUids,
                   minerVars>>

\* self.update_scores(uids, reward_event.reward)
UpdateScores ==
    /\ pc = "scores"
    /\ scoreCalls' = scoreCalls + 1
    /\ phases' = Append(phases, "scores")
    /\ pc' = After("scores")
    /\ UNCHANGED <<config, task, agent, rounds, exclude_uids, uids, query, responses,
                   rewards, top, event, draw, inflight, contCalls, logged, stepExclude,
                   stepUids, minerVars>>

\* The event is built and logged, and run_step returns it; its locals end.
LogEvent ==
    /\ pc = "log"
    /\ logged' = logged + 1
    /\ event' = [uids |-> uids]
    /\ phases' = Append(phases, "log")
    /\ uids' = <<>>
    /\ query' = NoQuery
    /\ responses' = <<>>
    /\ rewards' = <<>>
    /\ top' = NoTop
    /\ pc' = After("log")
    /\ UNCHANGED <<config, task, agent, rounds, exclude_uids, draw, inflight, contCalls,
                   scoreCalls, stepExclude, stepUids, minerVars>>

\* exclude_uids += event['uids']; the break test; rounds += 1
AfterStep ==
    /\ pc = "returned"
    /\ exclude_uids' = ExtendExclude(exclude_uids, event)
    /\ IF TurnsExceeded(rounds, config)
       THEN draw' = -1 /\ rounds' = rounds /\ pc' = "done"
       ELSE \E d \in 0..(ProbDen - 1) :
               /\ draw' = d
               /\ IF DrawTerminates(d, config)
                  THEN rounds' = rounds /\ pc' = "done"
                  ELSE rounds' = rounds + 1 /\ pc' = "loop_test"
    /\ UNCHANGED <<config, task, agent, uids, query, responses, rewards, top, event,
                   inflight, contCalls, scoreCalls, logged, phases, stepExclude,
                   stepUids, minerVars>>

----------------------------------------------------------------------------
(* neurons/miners/zephyr/miner.py : ZephyrMiner.forward                    *)

Prompts == {"p1", "p2"}
Responses == {"r1", "r2"}

\* The message lists of an incoming synapse, the empty one among them.
MessageLists == UNION {[1..n -> Prompts] : n \in 0..MaxMsgs}

Synapses == [id : {1}, messages : MessageLists, completion : {""}]

NoExc == [kind |-> "none", value |-> ""]

\* What a step of the handler may do: succeed, raise an Exception, or raise a
\* BaseException that is no Exception (a KeyboardInterrupt).
Failures == {[kind |-> "Exception", value |-> "out of memory"],
             [kind |-> "BaseException", value |-> "KeyboardInterrupt"]}
QueryOutcomes == {[kind |-> "ok", value |-> r] : r \in Responses} \cup Failures
StepOutcomes == {[kind |-> "ok", value |-> ""]} \cup Failures

\* The environment of one call: what self.model.query, self.log_event and
\* torch.cuda.empty_cache do, and self.config.wandb.on.
MinerEnvs ==
    [query : QueryOutcomes, wandb_on : BOOLEAN, log_event : StepOutcomes,
     empty_cache : StepOutcomes]

\* The body of the try block: the completion it leaves on the synapse and the
\* exception that ended it, if any.
TryBody(syn, env) ==
    IF Len(syn.messages) = 0
    THEN [completion |-> syn.completion,
          exc |-> [kind |-> "Exception", value |-> "list index out of range"]]
    ELSE IF env.query.kind # "ok"
    THEN [completion |-> syn.completion, exc |-> env.query]
    ELSE IF env.wandb_on /\ env.log_event.kind # "ok"
    THEN [completion |-> env.query.value, exc |-> env.log_event]
    ELSE IF env.empty_cache.kind # "ok"
    THEN [completion |-> env.query.value, exc |-> env.empty_cache]
    ELSE [completion |-> env.query.value, exc |-> NoExc]

\* `except Exception as e`: synapse.completion = "Error: " + str(e)
ExceptClause(completion, exc) ==
    IF exc.kind = "Exception" THEN "Error: " \o exc.value ELSE completion

\* Propagated with no return in the finally block.
Propagated_reraised(exc) == exc

\* `finally: return synapse`: the return discards an exception still in flight.
Propagated(exc) == NoExc

\* ZephyrMiner.forward: the synapse handed back and the exception that leaves
\* the handler, if any.
ZephyrForward(syn, env) ==
    LET body == TryBody(syn, env)
    IN [synapse |-> [syn EXCEPT !.completion = ExceptClause(body.completion, body.exc)],
        raised |-> IF body.exc.kind = "BaseException" THEN Propagated(body.exc) ELSE NoExc,
        exc |-> body.exc,
        env |-> env]

NoReturn == [synapse |-> [id |-> 0, messages |-> <<>>, completion |-> ""],
             raised |-> NoExc, exc |-> NoExc,
             env |-> [query |-> [kind |-> "ok", value |-> ""], wandb_on |-> FALSE,
                      log_event |-> [kind |-> "ok", value |-> ""],
                      empty_cache |-> [kind |-> "ok", value |-> ""]]]

\* One request served by the miner.
MinerForward ==
    /\ minerPc = "idle"
    /\ \E env \in MinerEnvs : returned' = ZephyrForward(synapse, env)
    /\ minerPc' = "done"
    /\ UNCHANGED <<pc, loopVars, synapse>>

----------------------------------------------------------------------------
(* Specifications                                                          *)

LoopIdle ==
    /\ rounds = 0
    /\ exclude_uids = <<>>
    /\ uids = <<>>
    /\ query = NoQuery
    /\ responses = <<>>
    /\ rewards = <<>>
    /\ top = NoTop
    /\ event = NoEvent
    /\ draw = -1
    /\ inflight = 0
    /\ contCalls = 0
    /\ scoreCalls = 0
    /\ logged = 0
    /\ phases = <<>>
    /\ stepExclude = <<>>
    /\ stepUids = <<>>

\* A validator entering forward, and a miner that has received a synapse.
Init ==
    /\ pc = "create_task"
    /\ config \in {c \in Configs : EnoughMiners(c)}
    /\ task = NoTask
    /\ agent = NoAgent
    /\ LoopIdle
    /\ synapse \in Synapses
    /\ returned = NoReturn
    /\ minerPc = "idle"

Next == CreateTask \/ CreateAgent \/ MinerForward

\* forward as it is written, and the miner's handler.
Spec == Init /\ [][Next]_vars

\* The keyword arguments HumanAgent.__init__ declares for what forward passes.
SignatureCall(t) == [task |-> t, llm_pipeline |-> "llm_pipeline", begin_conversation |-> TRUE]

\* forward at its step loop (rounds = 0, exclude_uids = []), holding the agent
\* HumanAgent.__init__ builds from the task, the pipeline and
\* begin_conversation=True when they are passed under the names of its
\* signature. The call written in forward passes the pipeline as `llm` and
\* ends in CreateAgent with a TypeError (Spec); run_step and the loop are
\* therefore followed from here, where an agent exists.
InitLoop ==
    /\ pc = "loop_test"
    /\ config \in {c \in Configs : EnoughMiners(c) /\ c.task_distribution = MainDistribution}
    /\ \E name \in TaskNames, threshold \in 0..RewardMax, answer \in RawChallenges :
           /\ name \in Sampleable(config)
           /\ task = create_task(name, threshold)
           /\ agent = HumanAgent_init(SignatureCall(task), answer).agent
    /\ LoopIdle
    /\ synapse = [id |-> 1, messages |-> <<>>, completion |-> ""]
    /\ returned = NoReturn
    /\ minerPc = "idle"

NextLoop ==
    \/ LoopExit
    \/ CallRunStep
    \/ SelectUids
    \/ Dispatch
    \/ Return
    \/ Reward
    \/ UpdateProgress
    \/ UpdateScores
    \/ LogEvent
    \/ AfterStep

\* The step loop of forward.
SpecLoop == InitLoop /\ [][NextLoop]_vars

\* The step loop under the scheduling of an asyncio task that is run to its
\* end: a step that can be taken is taken.
FairLoop == SpecLoop /\ WF_vars(NextLoop)

----------------------------------------------------------------------------
(* Properties                                                              *)

\* The phases of one run_step, in the order of its docstring; "query" is the
\* start of the batch call and "responses" its return.
PhaseOrder == <<"uids", "query", "responses", "reward", "progress", "scores", "log">>

InStep == pc \in Range(RunStepOrder) \ {"returned"}
Steps == Len(stepExclude)
Complete == agent.task.complete
Threshold == agent.task.reward_threshold

\* C1: every run_step performs its phases once each and in the order: select
\* the uids, one batch query to exactly those uids with the configured
\* timeout, rewards, update_progress, update_scores, log. update_scores has
\* been called once per step (also in the step that finishes the agent) and
\* never before the step's responses have returned.
C1_RunStepPhases ==
    /\ IsPrefix(phases, PhaseOrder)
    /\ pc = "returned" => phases = PhaseOrder
    /\ (InStep /\ "query" \in Range(phases)) =>
           /\ query.axons = uids
           /\ query.timeout = config.timeout
           /\ Len(uids) = config.sample_size
    /\ scoreCalls = Steps - (IF InStep /\ "scores" \notin Range(phases) THEN 1 ELSE 0)
    /\ logged = Steps - (IF InStep THEN 1 ELSE 0)
    /\ "scores" \in Range(phases) => ("responses" \in Range(phases) /\ inflight = 0)

\* C1 witness: a second step has returned, it finished the agent, and the
\* scores were updated in it.
C1_Witness ==
    /\ pc = "returned"
    /\ Steps = 2
    /\ finished(agent)
    /\ scoreCalls = 2

\* C2: a run_step starts only while the agent is not finished; after a step
\* the loop stops exactly when rounds > max_turns or the draw falls below
\* termination_probability; the loop makes at most max_turns + 2 steps and
\* eventually ends.
C2_LoopTerminates ==
    /\ [][pc' = "select" => ~finished(agent)]_vars
    /\ [][pc = "returned" =>
            ((pc' = "done") <=>
                (rounds > config.max_turns
                    \/ (draw' >= 0 /\ draw' < config.termination_probability)))]_vars
    /\ [](Steps <= config.max_turns + 2)
    /\ <>(pc = "done")

\* C2 witness: the loop has ended by the turn limit, the agent unfinished.
C2_Witness ==
    /\ pc = "done"
    /\ ~finished(agent)
    /\ config.max_turns = MaxTurnsMax
    /\ Steps = config.max_turns + 2

\* C3: update_progress completes the task (finished, progress 1) if and only
\* if top_reward > reward_threshold; otherwise task.complete is unchanged.
C3_Criterion ==
    [][pc = "progress" =>
        /\ top.reward > Threshold => (Complete' /\ finished(agent)' /\ progress(agent)' = 1)
        /\ top.reward <= Threshold =>
               (Complete' = Complete /\ finished(agent)' = finished(agent))
        /\ ~Complete => (Complete' <=> top.reward > Threshold)]_vars

\* C3 witness: update_progress has run on a top reward equal to the threshold
\* and the task is not complete.
C3_Witness ==
    /\ "progress" \in Range(phases)
    /\ InStep
    /\ top.reward = Threshold
    /\ ~Complete

\* C4: the exclude list of step n is the concatenation of the uids of steps
\* 1..n-1, exclude_uids only grows, and the uids of different steps are
\* disjoint.
C4_ExcludeGrows ==
    /\ [](\A n \in 1..Len(stepExclude) :
              stepExclude[n] = Concat(SubSeq(stepUids, 1, n - 1)))
    /\ [](\A i \in 1..Len(stepUids), j \in 1..Len(stepUids) :
              i # j => Range(stepUids[i]) \cap Range(stepUids[j]) = {})
    /\ [][IsPrefix(exclude_uids, exclude_uids')]_vars

\* C4 witness: a third step has selected its uids.
C4_Witness ==
    /\ Len(stepUids) = 3
    /\ Len(stepExclude[3]) = 2 * config.sample_size

\* C5: at most one batch call is in flight; no reward is computed before the
\* call has returned a response for every uid; a batch call is started only
\* when every earlier step has updated the scores and logged its event.
C5_OneAwaitedCall ==
    /\ [](inflight <= 1)
    /\ [](pc \in {"reward", "progress", "scores", "log"} =>
              (inflight = 0 /\ Len(uids) > 0 /\ Len(responses) = Len(uids)))
    /\ [][inflight' > inflight =>
              (inflight = 0 /\ scoreCalls = Steps - 1 /\ logged = Steps - 1)]_vars

\* C5 witness: the batch call of a second step is in flight.
C5_Witness ==
    /\ inflight = 1
    /\ pc = "await"
    /\ Steps = 2

\* C8: in the step loop continue_conversation is never called, the
\* challenge never changes, and the message history changes only in the step
\* that finishes the agent, by exactly the top response appended as "user".
C8_ConversationUnchanged ==
    /\ [](contCalls = 0)
    /\ [][agent.challenge' = agent.challenge]_vars
    /\ [][agent.messages' # agent.messages =>
            /\ pc = "progress"
            /\ ~finished(agent) /\ finished(agent)'
            /\ agent.messages' =
                   Append(agent.messages, [content |-> top.response, role |-> "user"])]_vars
    /\ [][(~finished(agent) /\ finished(agent)') =>
              Len(agent.messages') = Len(agent.messages) + 1]_vars

\* C8 witness: an unfinished first step left the history alone and the second
\* step finished the agent.
C8_Witness ==
    /\ Steps = 2
    /\ finished(agent)
    /\ Len(agent.messages) = 4
    /\ agent.messages[4].role = "user"

\* C7: once forward is past the construction of the agent, the agent exists
\* and its challenge is the generated opening question.
C7_AgentConstructed ==
    pc \notin {"create_task", "create_agent"} =>
        (agent.exists /\ agent.has_challenge
            /\ agent.challenge \in {Strip(a) : a \in RawChallenges})

Served == minerPc = "done"

\* C6, as stated: the handler never raises and returns its synapse; the
\* completion is the model's response when the query succeeded, and
\* "Error: " + str(e) when a step of the handler raised e.
C6_AsStated ==
    Served =>
        /\ returned.raised = NoExc
        /\ returned.synapse.id = synapse.id
        /\ (Len(synapse.messages) > 0 /\ returned.env.query.kind = "ok") =>
               returned.synapse.completion = returned.env.query.value
        /\ returned.exc # NoExc =>
               returned.synapse.completion = "Error: " \o returned.exc.value

\* C6, amended: the handler never raises and returns its synapse with its
\* messages; the completion is the model's response when no step of the try
\* block raised, and "Error: " + str(e) when a step raised an Exception e,
\* also a step after the successful query.
C6_Amended ==
    Served =>
        /\ returned.raised = NoExc
        /\ returned.synapse.id = synapse.id
        /\ returned.synapse.messages = synapse.messages
        /\ returned.exc = NoExc =>
               (/\ returned.env.query.kind = "ok"
                /\ returned.synapse.completion = returned.env.query.value)
        /\ returned.exc.kind = "Exception" =>
               returned.synapse.completion = "Error: " \o returned.exc.value

\* C6 witness: the query succeeded, the logging after it raised, and the
\* completion is the error text.
C6_Witness ==
    /\ Served
    /\ returned.env.query.kind = "ok"
    /\ returned.exc.kind = "Exception"
    /\ returned.synapse.completion = "Error: out of memory"

====
